---------------------------- MODULE Spec2Model ----------------------------
(***************************************************************************)
(* Model of tayjaybabee/WebLEDMatrix.                                      *)
(*                                                                         *)
(*  Part I  - the pixel-grid editor (src/web-led-matrix/__init__.py):      *)
(*            Frame, PixelGrid, the grid validators, file export / load.   *)
(*  Part II - the identify web app (src/web_led_matrix/app.py):            *)
(*            MatrixControllerApp under the script-rerun model.            *)
(*                                                                         *)
(* Python lists are objects: a grid lives in `heap` under an object id and *)
(* frames / editors hold ids, so aliasing between frames is observable.    *)
(* Indices (current_frame, col, row) are 0-based as in the source;         *)
(* sequences are 1-based, hence the +1 at every subscript.                 *)
(***************************************************************************)
EXTENDS Integers, Sequences, FiniteSets, TLC

VARIABLES
    heap,       \* object id -> grid value (a list of `width` lists of `height` cells)
    eds,        \* editor -> PixelGrid instance (only constructed editors are in the domain)
    FrameCls,   \* class attributes of Frame (shared by every instance in the process)
    last,       \* the last operation and how it ended (popup shown, exception escaped)
    app,        \* Part II: session_state, the app instance, the script position
    tasks       \* Part II: every identify Thread launched and not yet reclaimed

vars == <<heap, eds, FrameCls, last, app, tasks>>
appvars == <<app, tasks>>

(***************************************************************************)
(* Bounds of the model.                                                    *)
(***************************************************************************)
MaxFrames == 3      \* Add Frame is not offered beyond this many frames (one editor)
MaxFramesMulti == 2 \* the same, in a process with several editors
MaxLaunches == 2    \* Identify is not clicked more often than this in one session

Editors == {1, 2}
Shapes == {<<2, 1>>, <<1, 2>>}      \* <<width, height>> a further editor may have
InitShape == <<2, 1>>               \* <<width, height>> of editor 1

(***************************************************************************)
(* JSON / Python values.  A value is [d |-> nesting depth, v |-> payload]: *)
(* d = 0 is a number, d = k > 0 a list whose elements have depth k-1, and  *)
(* d = -1 stands for a file that cannot be opened or parsed.               *)
(***************************************************************************)
Num(n) == [d |-> 0, v |-> n]
List(k, s) == [d |-> k, v |-> s]
Unreadable == [d |-> -1, v |-> <<>>]
isinstance_list(x) == x.d > 0
Elem(x, i) == [d |-> x.d - 1, v |-> x.v[i]]

\* a faulty variant of the validator: the cell test is dropped
_is_valid_grid_AnyCell(grid, width, height) ==
    /\ isinstance_list(grid)
    /\ Len(grid.v) = width
    /\ \A c \in 1..Len(grid.v) :
          LET col == Elem(grid, c) IN
          /\ isinstance_list(col)
          /\ Len(col.v) = height

_is_valid_grid(grid, width, height) ==
    /\ isinstance_list(grid)
    /\ Len(grid.v) = width
    /\ \A c \in 1..Len(grid.v) :
          LET col == Elem(grid, c) IN
          /\ isinstance_list(col)
          /\ Len(col.v) = height
          /\ \A r \in 1..Len(col.v) :
                LET cell == Elem(col, r) IN cell.d = 0 /\ cell.v \in {0, 1}

_is_valid_frames(raw, width, height) ==
    /\ isinstance_list(raw)
    /\ Len(raw.v) > 0
    /\ \A i \in 1..Len(raw.v) : _is_valid_grid(Elem(raw, i), width, height)

AsList(g) == List(2, g)      \* an in-memory grid seen as a Python value

DefaultDuration == 1

(***************************************************************************)
(* The object store.  S is the part of the state a method works on:        *)
(* [heap, eds, cls, exc]; exc is set once an exception is propagating.     *)
(***************************************************************************)
Here == [heap |-> heap, eds |-> eds, cls |-> FrameCls, exc |-> FALSE]

NewId(h) == CHOOSE i \in 1..(Cardinality(DOMAIN h) + 1) : i \notin DOMAIN h

Raise(S) == [S EXCEPT !.exc = TRUE]

\* a new list object holding `val` (a list literal, copy.deepcopy, json.load)
new_list(S, val) == [S EXCEPT !.heap = (NewId(S.heap) :> val) @@ S.heap]

(***************************************************************************)
(* class Frame                                                             *)
(***************************************************************************)
\* Frame.grid setter: the value is checked against the class-wide shape
Frame_grid_valid(S, id) ==
    _is_valid_grid(AsList(S.heap[id]), S.cls.width, S.cls.height)

\* Frame.duration setter: float(value) > 0
Frame_duration_valid(value) == value > 0

\* Frame.__init__: overwrites the class-wide shape with the shape of the
\* grid it is given, then runs both setters
Frame__init__(S, id, duration) ==
    LET g  == S.heap[id]
        S1 == [S EXCEPT !.cls.width = Len(g),
                        !.cls.height = IF Len(g) > 0 THEN Len(g[1]) ELSE 0]
    IN  IF Frame_grid_valid(S1, id) /\ Frame_duration_valid(duration)
        THEN S1 ELSE Raise(S1)

Frame(id, duration) == [grid |-> id, duration |-> duration]

(***************************************************************************)
(* class PixelGrid: the property setters                                   *)
(***************************************************************************)
\* PixelGrid.frames setter
frames_set(S, e, value) ==
    IF Len(value) = 0 THEN Raise(S) ELSE [S EXCEPT !.eds[e].frames = value]

\* PixelGrid.current_frame setter
current_frame_set(S, e, value) ==
    IF ~(0 <= value /\ value < Len(S.eds[e].frames)) THEN Raise(S)
    ELSE [S EXCEPT !.eds[e].current_frame = value]

\* PixelGrid.grid setter: stores the reference, then writes it through to
\* the current Frame, whose own setter validates again and may raise
grid_set(S, e, id) ==
    LET ed == S.eds[e] IN
    IF ~_is_valid_grid(AsList(S.heap[id]), ed.width, ed.height) THEN Raise(S)
    ELSE LET S1 == [S EXCEPT !.eds[e].grid = id] IN
         IF Len(ed.frames) > 0
         THEN IF Frame_grid_valid(S1, id)
              THEN [S1 EXCEPT !.eds[e].frames[ed.current_frame + 1].grid = id]
              ELSE Raise(S1)
         ELSE S1

(***************************************************************************)
(* class PixelGrid: construction and the frame operations                  *)
(***************************************************************************)
NoDevice == "None"

\* PixelGrid.__init__.  The two assignments `Frame.__width = self.width`,
\* `Frame.__height = self.height` are written inside class PixelGrid, so
\* Python mangles them to Frame._PixelGrid__width/__height: they land in
\* pg_width/pg_height, which the Frame validator never reads.
PixelGrid__init__(S, e, width, height) ==
    IF ~(width > 0 /\ height > 0) THEN Raise(S)
    ELSE
    LET base == [c \in 1..width |-> [r \in 1..height |-> 0]]
        S1   == [S EXCEPT !.cls.pg_width = width, !.cls.pg_height = height]
        id   == NewId(S1.heap)
        S2   == Frame__init__(new_list(S1, base), id, DefaultDuration)
        self == [width |-> width, height |-> height,
                 frames |-> <<Frame(id, DefaultDuration)>>,
                 current_frame |-> 0, grid |-> 0,
                 preferred_device |-> NoDevice, alive |-> TRUE]
        S3   == [S2 EXCEPT !.eds = (e :> self) @@ S2.eds]
    IN  IF S2.exc THEN S2 ELSE grid_set(S3, e, id)

\* PixelGrid._toggle_pixel: builds a whole new grid (no list is ever
\* changed in place) and assigns it through the grid setter
_toggle_pixel(S, e, col, row) ==
    LET ed  == S.eds[e]
        g   == S.heap[ed.grid]
        new == 1 - g[col + 1][row + 1]
        val == [c \in 1..ed.width |-> [r \in 1..ed.height |->
                   IF c = col + 1 /\ r = row + 1 THEN new ELSE g[c][r]]]
        id  == NewId(S.heap)
    IN  grid_set(new_list(S, val), e, id)

\* a faulty variant of add_frame: the new frame is inserted right after the cursor
add_frame_InsertAfterCursor(S, e) ==
    LET ed  == S.eds[e]
        id  == NewId(S.heap)
        S1  == Frame__init__(new_list(S, S.heap[ed.grid]), id, DefaultDuration)
        frm == Frame(id, DefaultDuration)
        k   == ed.current_frame + 1
        S2  == frames_set(S1, e, SubSeq(ed.frames, 1, k) \o <<frm>>
                                  \o SubSeq(ed.frames, k + 1, Len(ed.frames)))
        S3  == current_frame_set(S2, e, k)
    IN  IF S1.exc THEN S1 ELSE IF S2.exc THEN S2 ELSE IF S3.exc THEN S3
        ELSE grid_set(S3, e, frm.grid)

\* a faulty variant of add_frame: copy.deepcopy is left out
add_frame_NoCopy(S, e) ==
    LET ed  == S.eds[e]
        id  == ed.grid
        S1  == Frame__init__(S, id, DefaultDuration)
        frm == Frame(id, DefaultDuration)
        S2  == frames_set(S1, e, ed.frames \o <<frm>>)
        S3  == current_frame_set(S2, e, Len(S2.eds[e].frames) - 1)
    IN  IF S1.exc THEN S1 ELSE IF S2.exc THEN S2 ELSE IF S3.exc THEN S3
        ELSE grid_set(S3, e, frm.grid)

\* PixelGrid.add_frame
add_frame(S, e) ==
    LET ed  == S.eds[e]
        id  == NewId(S.heap)
        S1  == Frame__init__(new_list(S, S.heap[ed.grid]), id, DefaultDuration)
        frm == Frame(id, DefaultDuration)
        S2  == frames_set(S1, e, ed.frames \o <<frm>>)
        S3  == current_frame_set(S2, e, Len(S2.eds[e].frames) - 1)
    IN  IF S1.exc THEN S1 ELSE IF S2.exc THEN S2 ELSE IF S3.exc THEN S3
        ELSE grid_set(S3, e, frm.grid)

\* PixelGrid._load_frame
_load_frame(S, e) ==
    LET ed == S.eds[e] IN grid_set(S, e, ed.frames[ed.current_frame + 1].grid)

\* PixelGrid.prev_frame
prev_frame(S, e) ==
    IF S.eds[e].current_frame > 0
    THEN LET S1 == current_frame_set(S, e, S.eds[e].current_frame - 1)
         IN  IF S1.exc THEN S1 ELSE _load_frame(S1, e)
    ELSE S

\* PixelGrid.next_frame
next_frame(S, e) ==
    IF S.eds[e].current_frame < Len(S.eds[e].frames) - 1
    THEN LET S1 == current_frame_set(S, e, S.eds[e].current_frame + 1)
         IN  IF S1.exc THEN S1 ELSE _load_frame(S1, e)
    ELSE S

(***************************************************************************)
(* Export and load.  json.dump / json.load carry a value of nested lists   *)
(* of integers to the file and back unchanged; a file that cannot be       *)
(* opened or parsed makes json.load raise.  The file system is not part of *)
(* the state: what a Load reads is an input (see LoadInputs).              *)
(***************************************************************************)
\* a faulty variant of the export data: only the grid on screen is written
ExportData_CurrentOnly(S, e) ==
    List(2, S.heap[S.eds[e].frames[S.eds[e].current_frame + 1].grid])

\* data = [f.grid for f in self.frames] if len(self.frames) > 1
\*        else self.frames[0].grid
ExportData(S, e) ==
    LET fs == S.eds[e].frames IN
    IF Len(fs) > 1
    THEN List(3, [i \in 1..Len(fs) |-> S.heap[fs[i].grid]])
    ELSE List(2, S.heap[fs[1].grid])

\* [Frame(copy.deepcopy(g)) for g in grids], left to right; stops at the
\* first Frame whose construction raises
RECURSIVE BuildFrames(_, _, _, _)
BuildFrames(S, grids, i, acc) ==
    IF i > Len(grids.v) THEN [S |-> S, frames |-> acc]
    ELSE LET id == NewId(S.heap)
             S1 == Frame__init__(new_list(S, grids.v[i]), id, DefaultDuration)
         IN  IF S1.exc THEN [S |-> S1, frames |-> acc]
             ELSE BuildFrames(S1, grids, i + 1,
                              Append(acc, Frame(id, DefaultDuration)))

\* a faulty variant of the load: `self.current_frame = 0` is left out
ReplaceFrames_KeepCursor(S, e, grids) ==
    LET B  == BuildFrames(S, grids, 1, <<>>)
        S1 == frames_set(B.S, e, B.frames)
    IN  IF B.S.exc THEN B.S ELSE IF S1.exc THEN S1
        ELSE IF S1.eds[e].current_frame + 1 > Len(S1.eds[e].frames)
        THEN Raise(S1)                          \* IndexError in _load_frame
        ELSE _load_frame(S1, e)

\* what the try block of _handle_Load_from_File does once the file is
\* classified: replace the sequence, reset the cursor, show frame 0
ReplaceFrames(S, e, grids) ==
    LET B  == BuildFrames(S, grids, 1, <<>>)
        S1 == frames_set(B.S, e, B.frames)
        S2 == current_frame_set(S1, e, 0)
    IN  IF B.S.exc THEN B.S ELSE IF S1.exc THEN S1 ELSE IF S2.exc THEN S2
        ELSE _load_frame(S2, e)

\* PixelGrid._handle_Load_from_File after the file dialog returned a path
\* whose content is `raw`.  Every exception is caught and reported; the
\* state is whatever it was when the exception was raised.
Load(S, e, raw) ==
    LET ed == S.eds[e] IN
    IF raw.d < 0 THEN [S |-> S, popup |-> "error"]
    ELSE IF _is_valid_grid(raw, ed.width, ed.height)
    THEN LET T == ReplaceFrames(S, e, List(3, <<raw.v>>))
         IN  [S |-> [T EXCEPT !.exc = FALSE],
              popup |-> IF T.exc THEN "error" ELSE "success"]
    ELSE IF _is_valid_frames(raw, ed.width, ed.height)
    THEN LET T == ReplaceFrames(S, e, raw)
         IN  [S |-> [T EXCEPT !.exc = FALSE],
              popup |-> IF T.exc THEN "error" ELSE "success"]
    ELSE [S |-> S, popup |-> "error"]

(***************************************************************************)
(* Object lifetime.  A list no frame and no editor refers to is gone, and  *)
(* ids mean nothing beyond equality: after each handler the live objects   *)
(* are renumbered in reference order (editor 1's frames, its grid, ...).   *)
(***************************************************************************)
RefsOf(ed) == [i \in 1..Len(ed.frames) |-> ed.frames[i].grid] \o <<ed.grid>>

AllRefs(E) ==
    (IF 1 \in DOMAIN E THEN RefsOf(E[1]) ELSE <<>>)
    \o (IF 2 \in DOMAIN E THEN RefsOf(E[2]) ELSE <<>>)

InList(x, lst) == \E i \in 1..Len(lst) : lst[i] = x

\* the distinct ids of `refs` in the order they first occur
RECURSIVE FirstRefs(_, _, _)
FirstRefs(refs, i, acc) ==
    IF i > Len(refs) THEN acc
    ELSE FirstRefs(refs, i + 1,
                   IF InList(refs[i], acc) THEN acc ELSE Append(acc, refs[i]))

Collect(S) ==
    LET order == FirstRefs(AllRefs(S.eds), 1, <<>>)
        ren   == [id \in {order[n] : n \in 1..Len(order)} |->
                     CHOOSE n \in 1..Len(order) : order[n] = id]
    IN  [S EXCEPT
          !.heap = [n \in 1..Len(order) |-> S.heap[order[n]]],
          !.eds  = [e \in DOMAIN S.eds |->
                      [S.eds[e] EXCEPT
                         !.frames = [i \in 1..Len(S.eds[e].frames) |->
                                       [S.eds[e].frames[i] EXCEPT
                                          !.grid = ren[@]]],
                         !.grid = ren[@]]]]

(***************************************************************************)
(* Send to Matrix.  DEVICES and render_matrix belong to the device         *)
(* library: the device list, the dialog's answer and the outcome of the    *)
(* hardware write are inputs.                                              *)
(***************************************************************************)
DeviceLists == {<<>>, <<"dev0">>}
\* DEV: the position picked in the list box (0: nothing picked)
Dialogs ==
    { [ev |-> "Cancel", DEV |-> 0, REM |-> FALSE],
      [ev |-> "OK", DEV |-> 0, REM |-> FALSE],
      [ev |-> "OK", DEV |-> 1, REM |-> FALSE],
      [ev |-> "OK", DEV |-> 1, REM |-> TRUE] }

Send(S, e, devices, dlg, render_ok) ==
    LET ed == S.eds[e]
        rendered == [S |-> S, popup |-> IF render_ok THEN "success" ELSE "error"]
    IN
    IF Len(devices) = 0 THEN [S |-> S, popup |-> "error"]
    ELSE IF InList(ed.preferred_device, devices) THEN rendered
    ELSE IF dlg.ev # "OK" \/ dlg.DEV = 0 THEN [S |-> S, popup |-> "none"]
    ELSE IF dlg.REM
    THEN [rendered EXCEPT !.S.eds[e].preferred_device = devices[dlg.DEV]]
    ELSE rendered

(***************************************************************************)
(* The files a user may pick in the Load dialog besides the exported one.  *)
(***************************************************************************)
EnvFiles ==
    { List(2, << <<1>>, <<0>> >>),                          \* a 2x1 grid
      List(2, << <<0, 1>> >>),                              \* a 1x2 grid
      List(3, << << <<1>>, <<1>> >>, << <<0>>, <<1>> >> >>), \* two 2x1 frames
      List(3, << << <<0>>, <<1>> >> >>),                    \* a sequence of one 2x1 frame
      List(2, << <<2>>, <<0>> >>),                          \* non-binary cell, 2x1
      List(3, << << <<1>>, <<0>> >>, << <<0, 1>> >> >>),    \* frames of mixed shape
      List(2, << <<1>>, <<0, 1>> >>),                       \* ragged columns
      List(1, <<0, 1>>),                                    \* a flat list
      List(1, <<>>),                                        \* []
      Num(5),                                               \* not a list
      Unreadable }

NoPath == [d |-> -2, v |-> <<>>]      \* the file dialog was cancelled

(***************************************************************************)
(* The handlers PixelGrid.run dispatches to, one action each.  A handler   *)
(* whose exception escapes ends run(): the editor handles no more events.  *)
(***************************************************************************)
Op(op, e, popup, raised) ==
    [op |-> op, e |-> e, popup |-> popup, raised |-> raised]

Return(S, e, l) ==
    LET T == Collect(IF S.exc THEN [S EXCEPT !.eds[e].alive = FALSE] ELSE S)
    IN  /\ heap' = T.heap
        /\ eds' = T.eds
        /\ FrameCls' = T.cls
        /\ last' = l

Running(e) == e \in DOMAIN eds /\ eds[e].alive

\* the keys of the grid buttons of editor e's window
Keys(e) ==
    IF e \in DOMAIN eds
    THEN (0..(eds[e].width - 1)) \X (0..(eds[e].height - 1)) ELSE {}

\* a grid button (col, row) was pressed
Toggle(e, key) ==
    /\ Running(e)
    /\ key \in Keys(e)
    /\ LET S == _toggle_pixel(Here, e, key[1], key[2])
       IN  Return(S, e, Op("toggle", e, "none", S.exc))
    /\ UNCHANGED appvars

\* cap: Add Frame is not offered once the sequence has this many frames
_handle_Add_Frame(e, cap) ==
    /\ Running(e)
    /\ Len(eds[e].frames) < cap
    /\ LET S == add_frame(Here, e)
       IN  Return(S, e, Op("Add_Frame", e, "none", S.exc))
    /\ UNCHANGED appvars

_handle_Prev(e) ==
    /\ Running(e)
    /\ LET S == prev_frame(Here, e)
       IN  Return(S, e, Op("Prev", e, "none", S.exc))
    /\ UNCHANGED appvars

_handle_Next(e) ==
    /\ Running(e)
    /\ LET S == next_frame(Here, e)
       IN  Return(S, e, Op("Next", e, "none", S.exc))
    /\ UNCHANGED appvars

\* _handle_Export prints ExportData and changes nothing
_handle_Export(e) ==
    /\ Running(e)
    /\ Return(Here, e, Op("Export", e, "none", FALSE))
    /\ UNCHANGED appvars

\* path = "": the save dialog was cancelled; writable: whether open(path, 'w')
\* and json.dump(ExportData) succeed.  No editor state changes either way.
_handle_Export_to_File(e, path, writable) ==
    /\ Running(e)
    /\ path = "" => writable              \* nothing is written
    /\ Return(Here, e, Op("Export_to_File", e,
                          IF path = "" THEN "none"
                          ELSE IF writable THEN "success" ELSE "error", FALSE))
    /\ UNCHANGED appvars

\* raw: the content of the file picked in the dialog (NoPath: cancelled)
_handle_Load_from_File(e, raw) ==
    /\ Running(e)
    /\ IF raw = NoPath
       THEN Return(Here, e, Op("Load_from_File", e, "none", FALSE))
       ELSE LET R == Load(Here, e, raw)
            IN  Return(R.S, e, Op("Load_from_File", e, R.popup, FALSE))
    /\ UNCHANGED appvars

_handle_Send_to_Matrix(e, devices, dlg, render_ok) ==
    /\ Running(e)
    /\ dlg.DEV <= Len(devices)
    /\ Len(devices) = 0 => render_ok /\ dlg.ev = "Cancel"   \* neither is consulted
    /\ LET R == Send(Here, e, devices, dlg, render_ok)
       IN  Return(R.S, e, Op("Send_to_Matrix", e, R.popup, FALSE))
    /\ UNCHANGED appvars

\* 'Exit' or the window being closed leaves the loop
Exit(e) ==
    /\ Running(e)
    /\ Return([Here EXCEPT !.eds[e].alive = FALSE], e,
              Op("Exit", e, "none", FALSE))
    /\ UNCHANGED appvars

\* a further PixelGrid of the given <<width, height>> is constructed in the
\* same process
Construct(e, shape) ==
    /\ e \notin DOMAIN eds
    /\ LET S == PixelGrid__init__(Here, e, shape[1], shape[2])
           T == Collect(S)
       IN  /\ heap' = T.heap
           /\ eds' = T.eds
           /\ FrameCls' = T.cls
           /\ last' = Op("PixelGrid", e, "none", S.exc)
    /\ UNCHANGED appvars

\* the file an Export to File of editor x's present frames leaves behind
ExportedFile(x) == ExportData(Here, x)

\* what the Load dialog can come back with: no path, one of EnvFiles, or a
\* file just exported by any editor of the process
LoadInputs == EnvFiles \cup {NoPath} \cup {ExportedFile(x) : x \in DOMAIN eds}

\* the grids client code hands to Frame(...) directly
FrameInputs ==
    { << <<0>>, <<1>> >>,          \* 2x1
      << <<1, 0>> >>,              \* 1x2
      << <<0>>, <<2>> >>,          \* 2x1 with a non-binary cell
      << <<0>>, <<0, 1>> >> }      \* ragged

\* Frame(grid) is constructed outside any editor; the object is dropped
Frame_new(grid) ==
    /\ LET id == NewId(heap)
           S  == Frame__init__(new_list(Here, grid), id, DefaultDuration)
           T  == Collect(S)
       IN  /\ heap' = T.heap
           /\ eds' = T.eds
           /\ FrameCls' = T.cls
           /\ last' = Op("Frame", 0, "none", S.exc)
    /\ UNCHANGED appvars

(***************************************************************************)
(* Part I specifications.                                                  *)
(*   Spec      - the program as shipped: PixelGrid().run(), one editor.    *)
(*   SpecMulti - a process that constructs a second editor as well.        *)
(*   SpecLib   - a process that also uses class Frame directly.            *)
(***************************************************************************)
NoObjects == <<>>
NoFrameCls == [width |-> 0, height |-> 0, pg_width |-> 0, pg_height |-> 0]

\* the web app is not running
AppOff ==
    [devices |-> <<>>, controllers |-> <<>>, controller_names |-> <<>>,
     processing |-> FALSE, identify_threads |-> <<>>,
     pick |-> 0, select_matrix |-> "", clicked |-> FALSE,
     disabled |-> FALSE, pc |-> "off", launches |-> 0]

\* editor 1 has been constructed
EdInit ==
    LET S0 == [heap |-> NoObjects, eds |-> <<>>, cls |-> NoFrameCls, exc |-> FALSE]
        S  == Collect(PixelGrid__init__(S0, 1, InitShape[1], InitShape[2]))
    IN  /\ heap = S.heap
        /\ eds = S.eds
        /\ FrameCls = S.cls
        /\ last = Op("PixelGrid", 1, "none", S.exc)

Init == EdInit /\ app = AppOff /\ tasks = <<>>

Handlers(e) ==
    \/ \E key \in Keys(e) : Toggle(e, key)
    \/ _handle_Add_Frame(e, MaxFrames)
    \/ _handle_Prev(e)
    \/ _handle_Next(e)
    \/ _handle_Export(e)
    \/ \E path \in {"", "grid.json"}, writable \in BOOLEAN :
          _handle_Export_to_File(e, path, writable)
    \/ \E raw \in LoadInputs : _handle_Load_from_File(e, raw)
    \/ \E devices \in DeviceLists, dlg \in Dialogs, render_ok \in BOOLEAN :
          _handle_Send_to_Matrix(e, devices, dlg, render_ok)
    \/ Exit(e)

Next == Handlers(1)

Spec == Init /\ [][Next]_vars

\* the operations that construct Frames or assign grids
GridOps(e, cap) ==
    \/ \E key \in Keys(e) : Toggle(e, key)
    \/ _handle_Add_Frame(e, cap)
    \/ _handle_Prev(e)
    \/ _handle_Next(e)
    \/ \E x \in DOMAIN eds : _handle_Load_from_File(e, ExportedFile(x))

NextMulti ==
    \E e \in Editors : GridOps(e, MaxFramesMulti) \/ \E shape \in Shapes : Construct(e, shape)

SpecMulti == Init /\ [][NextMulti]_vars

\* the one editor, and client code that constructs Frames of its own
NextLib == GridOps(1, MaxFramesMulti) \/ \E grid \in FrameInputs : Frame_new(grid)

SpecLib == Init /\ [][NextLib]_vars

(***************************************************************************)
(* Part II - the identify web app.                                         *)
(*                                                                         *)
(* The script runs top to bottom on every rerun (run() constructs a new    *)
(* MatrixControllerApp each time); session_state survives reruns.  The     *)
(* framework is taken by its contract: a widget rendered disabled takes no *)
(* input, a widget event or st.rerun() starts a new run, and the user acts *)
(* on what a finished run rendered (app.pc = "idle").                      *)
(*   app.pc: "run"  - a run is about to start                              *)
(*           "spin" - the run is inside the spinner's polling loop         *)
(*           "idle" - the run has ended; the page waits for the user       *)
(* A controller is known by its position in the device list; a Thread is   *)
(* [ctrl |-> its controller, alive |-> is_alive()].                        *)
(***************************************************************************)
ControllerLists ==
    { <<>>, <<"A">>, <<"A", "B">>, <<"A", "A">>, <<"All", "B">> }

Options(a) == a.controller_names \o <<"All">>

Threads(a) == {a.identify_threads[i] : i \in 1..Len(a.identify_threads)}

Alive(T) == {t \in DOMAIN T : T[t].alive}

\* MatrixControllerApp.__init__: the controllers are read anew on every run;
\* the session keys exist from the first run on
App__init__(a) ==
    [a EXCEPT !.controllers = [i \in 1..Len(a.devices) |-> i],
              !.controller_names = a.devices]

\* a faulty variant of the poll: one finished task is enough to reset
PollReset_AnyDone(a, T) ==
    IF a.identify_threads # <<>> /\ \E t \in Threads(a) : ~T[t].alive
    THEN [a EXCEPT !.processing = FALSE, !.identify_threads = <<>>]
    ELSE a

\* run(), the head: if threads and all(not t.is_alive() ...): reset
PollReset(a, T) ==
    IF a.identify_threads # <<>> /\ \A t \in Threads(a) : ~T[t].alive
    THEN [a EXCEPT !.processing = FALSE, !.identify_threads = <<>>]
    ELSE a

\* list.index: the first position holding x
index(lst, x) == CHOOSE i \in 1..Len(lst) : lst[i] = x /\ \A j \in 1..(i - 1) : lst[j] # x

\* the controllers handle_identify makes a Thread for, in order
Targets(a) ==
    IF a.select_matrix = "All"
    THEN a.controllers
    ELSE <<a.controllers[index(a.controller_names, a.select_matrix)]>>

\* the first n thread ids not in use
RECURSIVE FreshIds(_, _, _)
FreshIds(used, n, acc) ==
    IF Len(acc) = n THEN acc
    ELSE LET t == CHOOSE i \in 1..(Cardinality(used) + 1) : i \notin used
         IN  FreshIds(used \cup {t}, n, Append(acc, t))

\* threads that are neither running nor referenced by the session are gone
Reclaim(a, T) == [t \in Alive(T) \cup Threads(a) |-> T[t]]

\* handle_identify up to st.rerun(): [app, tasks] afterwards
handle_identify(a, T) ==
    LET targets == Targets(a)
        ids     == FreshIds(DOMAIN T, Len(targets), <<>>)
        started == [t \in {ids[i] : i \in 1..Len(ids)} |->
                      [ctrl |-> targets[index(ids, t)], alive |-> TRUE]]
    IN  [app   |-> [a EXCEPT !.identify_threads = ids, !.processing = TRUE,
                             !.launches = a.launches + 1, !.pc = "run"],
         tasks |-> started @@ T]

\* one run of the script, from MatrixControllerApp() to the point where it
\* ends, reruns, or starts polling
ScriptRun ==
    /\ app.pc = "run"
    /\ LET a1 == PollReset(App__init__(app), tasks)
           disabled == a1.processing \/ a1.identify_threads # <<>>
           \* st.selectbox(key="select_matrix"): the session holds the option picked,
           \* the first one until the user picks
           pick == IF a1.pick \in 1..Len(Options(a1)) THEN a1.pick ELSE 1
           a2 == [a1 EXCEPT !.disabled = disabled, !.pick = pick,
                            !.select_matrix = Options(a1)[pick],
                            !.clicked = FALSE]
       IN  IF a1.clicked /\ ~disabled         \* st.button("Identify") returned True
           THEN LET R == handle_identify(a2, tasks)
                IN  app' = R.app /\ tasks' = Reclaim(R.app, R.tasks)
           ELSE /\ app' = [a2 EXCEPT !.pc = IF disabled THEN "spin" ELSE "idle"]
                /\ tasks' = Reclaim(a2, tasks)
    /\ UNCHANGED <<heap, eds, FrameCls, last>>

\* the spinner: while any(t.is_alive() ...): sleep; then st.rerun()
SpinExit ==
    /\ app.pc = "spin"
    /\ \A t \in Threads(app) : ~tasks[t].alive
    /\ app' = [app EXCEPT !.pc = "run"]
    /\ UNCHANGED <<heap, eds, FrameCls, last, tasks>>

\* controller.identify() returns (or raises) in thread t
ThreadDone(t) ==
    /\ t \in DOMAIN tasks
    /\ tasks[t].alive
    /\ tasks' = [tasks EXCEPT ![t].alive = FALSE]
    /\ UNCHANGED <<heap, eds, FrameCls, last, app>>

CanInteract == app.pc = "idle" /\ ~app.disabled

\* the user picks option p of the selector
Select(p) ==
    /\ CanInteract
    /\ p \in 1..Len(Options(app))
    /\ app' = [app EXCEPT !.pick = p, !.pc = "run"]
    /\ UNCHANGED <<heap, eds, FrameCls, last, tasks>>

\* the user presses Identify
Click ==
    /\ CanInteract
    /\ app.launches < MaxLaunches
    /\ app' = [app EXCEPT !.clicked = TRUE, !.pc = "run"]
    /\ UNCHANGED <<heap, eds, FrameCls, last, tasks>>

\* the web app is a process of its own: no editor exists in it
AppInit ==
    /\ heap = NoObjects
    /\ eds = <<>>
    /\ FrameCls = NoFrameCls
    /\ last = Op("none", 0, "none", FALSE)
    /\ tasks = <<>>
    /\ \E devices \in ControllerLists :
          app = [AppOff EXCEPT !.devices = devices, !.pc = "run"]

\* the ids a Thread can get: the longest controller list has 2 entries
ThreadIds == 1..(2 * (MaxLaunches + 1))

AppNext ==
    \/ ScriptRun
    \/ SpinExit
    \/ \E t \in DOMAIN tasks : ThreadDone(t)
    \/ \E p \in 1..Len(Options(app)) : Select(p)
    \/ Click

AppSpec == AppInit /\ [][AppNext]_vars

\* the script runner runs a started script on, and identify() returns
AppFair ==
    /\ AppSpec
    /\ WF_vars(ScriptRun)
    /\ WF_vars(SpinExit)
    /\ \A t \in ThreadIds : WF_vars(ThreadDone(t))

(***************************************************************************)
(* Properties of Part I.  They speak of values, not object ids: the grid   *)
(* of a frame is heap[frame.grid].                                         *)
(***************************************************************************)
FrameGrids(e) == [i \in 1..Len(eds[e].frames) |-> heap[eds[e].frames[i].grid]]

FrameDurations(e) == [i \in 1..Len(eds[e].frames) |-> eds[e].frames[i].duration]

\* what the user-visible state of editor e consists of
View(e) ==
    [frames |-> FrameGrids(e), durations |-> FrameDurations(e),
     current_frame |-> eds[e].current_frame, grid |-> heap[eds[e].grid]]

\* a width x height grid of 0/1 cells, and a non-empty list of such grids,
\* stated without the program's validators
Grids01(w, h) == [1..w -> [1..h -> {0, 1}]]

WellFormedGrid(raw, w, h) == raw.d = 2 /\ raw.v \in Grids01(w, h)

WellFormedFrames(raw, w, h) ==
    /\ raw.d = 3
    /\ Len(raw.v) > 0
    /\ \A i \in 1..Len(raw.v) : raw.v[i] \in Grids01(w, h)

Malformed(raw, e) ==
    /\ raw # NoPath
    /\ ~WellFormedGrid(raw, eds[e].width, eds[e].height)
    /\ ~WellFormedFrames(raw, eds[e].width, eds[e].height)

LoadedOk(e) == last.op = "Load_from_File" /\ last.e = e /\ last.popup = "success"

\* In the step properties below the handler is named together with the
\* operation `last` records, which the handler implies: steps of other
\* handlers are told apart without evaluating this one.

\* C1: in every reachable state of the editor the frame sequence is
\* non-empty and 0 <= current_frame < len(frames); right after a successful
\* Load from File current_frame is 0.
C1_IndexValid ==
    \A e \in DOMAIN eds :
        /\ Len(eds[e].frames) > 0
        /\ eds[e].current_frame \in 0..(Len(eds[e].frames) - 1)
        /\ LoadedOk(e) => eds[e].current_frame = 0

\* reached: a successful load of a sequence of several frames
C1_Witness ==
    /\ LoadedOk(1)
    /\ Len(eds[1].frames) >= 2
    /\ eds[1].current_frame = 0

ExportClassified(x) ==
    LET f == ExportedFile(x)
        w == eds[x].width
        h == eds[x].height
    IN  IF Len(eds[x].frames) = 1
        THEN _is_valid_grid(f, w, h) /\ ~_is_valid_frames(f, w, h)
        ELSE ~_is_valid_grid(f, w, h) /\ _is_valid_frames(f, w, h)

\* C5: Export to File followed by Load from File of that file succeeds and
\* yields as many frames as were exported, with equal grids in the same
\* order and the cursor at 0; one exported grid is classified as a grid,
\* several exported frames as a frame sequence.
C5_ExportLoadRoundTrip ==
    [][/\ ExportClassified(1)
       /\ (last'.op = "Load_from_File" /\ _handle_Load_from_File(1, ExportedFile(1)))
          => /\ last'.popup = "success"
             /\ Len(eds'[1].frames) = Len(eds[1].frames)
             /\ FrameGrids(1)' = FrameGrids(1)
             /\ eds'[1].current_frame = 0
             /\ heap'[eds'[1].grid] = FrameGrids(1)[1]]_vars

\* reached: a successful load of three frames that are not all equal (no
\* file other than an exported one holds three frames)
C5_Witness ==
    /\ LoadedOk(1)
    /\ Len(eds[1].frames) >= 3
    /\ FrameGrids(1)[1] # FrameGrids(1)[2]

\* C6: Add Frame, at any cursor position, appends one frame at the end,
\* leaves the frames that existed as they were and in order, moves the
\* cursor to the new last index, and the new frame's grid equals cell for
\* cell the grid that was current before.
C6_AddFrameAppendsCopy ==
    [][(last'.op = "Add_Frame" /\ _handle_Add_Frame(1, MaxFrames))
       => LET n == Len(eds[1].frames) IN
          /\ ~last'.raised
          /\ Len(eds'[1].frames) = n + 1
          /\ SubSeq(FrameGrids(1)', 1, n) = FrameGrids(1)
          /\ SubSeq(FrameDurations(1)', 1, n) = FrameDurations(1)
          /\ eds'[1].current_frame = n
          /\ FrameGrids(1)'[n + 1] = FrameGrids(1)[eds[1].current_frame + 1]
          /\ FrameGrids(1)'[n + 1] = heap[eds[1].grid]
          /\ heap'[eds'[1].grid] = heap[eds[1].grid]]_vars

\* reached: a frame added while the cursor was on frame 0 of two differing
\* frames (the copy equals frame 0, not the last frame)
C6_Witness ==
    /\ last.op = "Add_Frame"
    /\ Len(eds[1].frames) = 3
    /\ FrameGrids(1)[3] = FrameGrids(1)[1]
    /\ FrameGrids(1)[3] # FrameGrids(1)[2]

\* no two frames of an editor hold the same list object
NoSharedGrid ==
    \A e \in DOMAIN eds : \A i, j \in 1..Len(eds[e].frames) :
        i # j => eds[e].frames[i].grid # eds[e].frames[j].grid

\* C8: no two frames ever share a grid, and a toggle of cell (col, row)
\* flips that cell of the current frame and leaves every other cell, every
\* other frame, the length of the sequence and the cursor unchanged.
C8_ToggleFlipsOneCell ==
    /\ []NoSharedGrid
    /\ [][\A key \in Keys(1) :
            (last'.op = "toggle" /\ Toggle(1, key))
            => LET k == eds[1].current_frame + 1 IN
               /\ ~last'.raised
               /\ Len(eds'[1].frames) = Len(eds[1].frames)
               /\ eds'[1].current_frame = eds[1].current_frame
               /\ \A i \in 1..Len(eds[1].frames), c \in 1..eds[1].width,
                     r \in 1..eds[1].height :
                     FrameGrids(1)'[i][c][r] =
                        IF i = k /\ c = key[1] + 1 /\ r = key[2] + 1
                        THEN 1 - FrameGrids(1)[i][c][r]
                        ELSE FrameGrids(1)[i][c][r]
               /\ heap'[eds'[1].grid] = FrameGrids(1)'[k]]_vars

\* reached: a toggle in a sequence of several frames that differ
C8_Witness ==
    /\ last.op = "toggle" /\ ~last.raised
    /\ Len(eds[1].frames) >= 2
    /\ \E i, j \in 1..Len(eds[1].frames) : FrameGrids(1)[i] # FrameGrids(1)[j]

\* C9: for every editor, after every operation, the editor's grid equals
\* frames[current_frame].grid, also when several editors of different
\* shape live in one process.
C9_GridInSync ==
    \A e \in DOMAIN eds :
        /\ eds[e].current_frame + 1 \in 1..Len(eds[e].frames)
        /\ heap[eds[e].grid] = heap[eds[e].frames[eds[e].current_frame + 1].grid]

ShapeOf(g) == <<Len(g), IF Len(g) > 0 THEN Len(g[1]) ELSE 0>>

\* C10: constructing a Frame from a well-formed 0/1 grid whose shape is not
\* the expected one fails, and the expected shape stays what it was.
C10_FrameShapeChecked ==
    [][\A grid \in FrameInputs :
          (/\ grid \in Grids01(ShapeOf(grid)[1], ShapeOf(grid)[2])
           /\ ShapeOf(grid) # <<FrameCls.width, FrameCls.height>>
           /\ Frame_new(grid))
          => /\ last'.raised
             /\ FrameCls'.width = FrameCls.width
             /\ FrameCls'.height = FrameCls.height]_vars

(***************************************************************************)
(* Properties of Part II.                                                  *)
(***************************************************************************)
\* C2: once Identify has been invoked and every launched task has
\* terminated, the app eventually has processing false and identify_threads
\* empty, for every controller list, the empty one included.
C2_EventuallyReset ==
    (app.processing /\ \A t \in DOMAIN tasks : ~tasks[t].alive)
    ~> (~app.processing /\ app.identify_threads = <<>>)

Started == [i \in 1..Len(app.identify_threads) |-> tasks[app.identify_threads[i]].ctrl]

\* C7: Identify with the "All" entry of the selector starts one task per
\* controller; Identify with a controller's entry starts exactly one task,
\* for a controller of that name.
C7_IdentifyTargets ==
    app.processing =>
        IF app.pick = Len(app.controller_names) + 1
        THEN Started = app.controllers
        ELSE /\ Len(Started) = 1
             /\ app.controller_names[Started[1]] = app.controller_names[app.pick]

=============================================================================
